---- MODULE Spec2Model ----
(***************************************************************************)
(* Bulk product import of MediSupply inventories.                          *)
(*                                                                         *)
(*   micro-inventarios  ProductImportService.import_products_file          *)
(*        validate -> upload blob -> create history record -> publish      *)
(*   app (processor)    ProductFileProcessorService                        *)
(*        .process_file_by_history_id                                      *)
(*        lookup -> download -> read -> row loop -> update history         *)
(*   micro-inventarios  ProductService.create_product (single product)     *)
(*                                                                         *)
(* Every call to a store (one SQLAlchemy session, one bucket or topic      *)
(* request) is one atomic step; the code between two calls belongs to the  *)
(* step of the call that follows it.                                       *)
(***************************************************************************)
EXTENDS Integers, Sequences, FiniteSets, TLC

(***************************************************************************)
(* Bounds of the model.                                                    *)
(***************************************************************************)
MaxRows == 2           \* data rows of a submitted file
MaxFaults == 1         \* store, bucket and topic failures injected in a run

\* The calls that run side by side: import_products_file,
\* process_file_by_history_id, ProductService.create_product and
\* ProductRepository.update_stock.
Submissions == {"s1", "s2"}
Invocations == {"p1", "p2"}
Creators == {"c1"}
Updaters == {"u1", "u2", "u3"}

None == "None"

(***************************************************************************)
(* Strings of the two services.                                            *)
(***************************************************************************)
EN_CURSO == "En curso"
FINALIZADO == "Finalizado"
ERROR == "Error"

\* Config.BUCKET_FOLDER_PROCESSED_PRODUCTS: the default of each service, and
\* the value an environment variable may give it.
FOLDER_DEFAULT_INVENTARIOS == "processed-products"
FOLDER_DEFAULT_PROCESSOR == "processed_products"

(***************************************************************************)
(* Cells of a data row, as pandas hands them to _create_product_from_row.  *)
(* NoColumn: the file has no such column (row['x'] raises KeyError).       *)
(* NaN: an empty cell.                                                     *)
(***************************************************************************)
NoColumn == "<no column>"
NaN == "nan"

\* str(cell).strip()
strip(s) ==
    CASE s = " MED-0001 " -> "MED-0001"
      [] s = "  " -> ""
      [] OTHER -> s

\* str(cell): every cell is held as the text str() gives for it
str(cell) == cell

\* datetime.fromisoformat(s.replace('Z', '+00:00')), then pd.to_datetime:
\* the cells one of the two parses, and the parsed instant as whole days
\* after utcnow().
date_parses(cell) ==
    cell \in {"2099-12-31T00:00:00Z", "2099-12-31", "31/12/2099", "2000-01-01"}

parse_date(cell) == IF cell = "2000-01-01" THEN -9000 ELSE 26000

\* int(cell): the cells it accepts (it raises ValueError on the others)
int_parses(cell) == cell \in {"0", "1", "5", "7", "10", "9999", "10000", "-3"}

int(cell) ==
    CASE cell = "0" -> 0
      [] cell = "1" -> 1
      [] cell = "5" -> 5
      [] cell = "7" -> 7
      [] cell = "10" -> 10
      [] cell = "9999" -> 9999
      [] cell = "10000" -> 10000
      [] OTHER -> -3

\* float(cell), in hundredths
float_parses(cell) == cell \in {"5000.50", "0", "-1.5", "1200"}

float(cell) ==
    CASE cell = "5000.50" -> 500050
      [] cell = "0" -> 0
      [] cell = "1200" -> 120000
      [] OTHER -> -150

(***************************************************************************)
(* models/product.py: Product.validate.  Each check gives the message of   *)
(* the ValueError it raises, or "ok".  A product built from a row or from  *)
(* a request always holds a parsed date, an int and a float, so the        *)
(* type checks of the validators cannot fail and are left out.             *)
(***************************************************************************)
\* re.match(r'^MED-\d{4}$', sku)
sku_pattern(s) == s \in {"MED-0001", "MED-0002", "MED-9999"}

\* re.match(r'^[a-zA-Z0-9\s...]+$', name)
name_pattern(s) == s \in {"Paracetamol 500mg", "Ibuprofeno", "ab", "Jeringa 5ml"}

name_len_stripped(s) == IF s = "ab" THEN 2 ELSE Len(s)

\* re.match(r'^[A-Z]-\d{2}-\d{2}$', location)
location_pattern(s) == s \in {"A-01-01", "B-12-03"}

\* re.match(uuid_pattern, provider_id.lower())
uuid_pattern(s) == s \in {"550e8400-e29b-41d4-a716-446655440000",
                          "550E8400-E29B-41D4-A716-446655440000"}

\* any(photo_filename.lower().endswith(ext) for ext in valid_extensions)
photo_extension_ok(s) == s \in {"photo.jpg", "FOTO.PNG", "x.jpeg", "y.gif"}

_validate_sku(p) ==
    IF p.sku = "" THEN "El SKU es obligatorio"
    ELSE IF ~sku_pattern(p.sku) THEN "El SKU debe seguir el formato MED-XXXX"
    ELSE "ok"

_validate_name(p) ==
    IF p.name = "" THEN "El nombre es obligatorio"
    ELSE IF name_len_stripped(p.name) < 3 THEN "El nombre debe tener al menos 3 caracteres"
    ELSE IF ~name_pattern(p.name) THEN "El nombre debe contener unicamente caracteres alfanumericos"
    ELSE "ok"

_validate_expiration_date(p) ==
    IF p.expiration_date <= 0 THEN "La fecha de vencimiento debe ser posterior a la fecha actual"
    ELSE "ok"

\* the two ends of the range let through
_validate_quantity_open_range(p) ==
    IF p.quantity < 0 \/ p.quantity > 10000 THEN "La cantidad debe estar entre 1 y 9999"
    ELSE "ok"

_validate_quantity(p) ==
    IF p.quantity < 1 \/ p.quantity > 9999 THEN "La cantidad debe estar entre 1 y 9999"
    ELSE "ok"

_validate_price(p) ==
    IF p.price <= 0 THEN "El precio debe ser un valor positivo"
    ELSE "ok"

_validate_location(p) ==
    IF p.location = "" THEN "La ubicacion es obligatoria"
    ELSE IF ~location_pattern(p.location) THEN "La ubicacion debe seguir el formato P-EE-NN"
    ELSE "ok"

_validate_product_type(p) ==
    IF p.product_type = "" THEN "El tipo de producto es obligatorio"
    ELSE IF p.product_type \notin {"Alto valor", "Seguridad", "Cadena fria"}
         THEN "El tipo de producto debe ser: Alto valor, Seguridad o Cadena fria"
    ELSE "ok"

_validate_provider_id(p) ==
    IF p.provider_id = "" THEN "El ID del proveedor es obligatorio"
    ELSE IF ~uuid_pattern(p.provider_id) THEN "El ID del proveedor debe ser un UUID valido"
    ELSE "ok"

_validate_photo_filename(p) ==
    IF p.photo_filename # None /\ ~photo_extension_ok(p.photo_filename)
    THEN "La foto debe ser un archivo JPG, PNG o GIF"
    ELSE "ok"

\* The first check that raises decides.
validate(p) ==
    LET checks == << _validate_sku(p), _validate_name(p), _validate_expiration_date(p),
                     _validate_quantity(p), _validate_price(p), _validate_location(p),
                     _validate_product_type(p), _validate_provider_id(p),
                     _validate_photo_filename(p) >>
        bad == {i \in 1..Len(checks) : checks[i] # "ok"}
    IN IF bad = {} THEN "ok"
       ELSE checks[CHOOSE i \in bad : \A j \in bad : i <= j]

(***************************************************************************)
(* ProductFileProcessorService._create_product_from_row.                   *)
(* A row is a record of cells; the product, or the message of the          *)
(* ValueError the method ends with.                                        *)
(***************************************************************************)
RequiredColumns ==
    {"sku", "name", "expiration_date", "quantity", "price", "location",
     "product_type", "provider_id"}

\* row.get('photo_filename') when it is neither NaN nor ''
optional_cell(cell) == IF cell \in {NoColumn, NaN, ""} THEN None ELSE strip(str(cell))

row_error(row) ==
    IF row.expiration_date = NoColumn THEN "Columna requerida no encontrada"
    ELSE IF ~date_parses(str(row.expiration_date)) THEN "Error de validacion: Formato de fecha invalido"
    ELSE IF \E c \in RequiredColumns : row[c] = NoColumn THEN "Columna requerida no encontrada"
    ELSE IF ~int_parses(row.quantity) THEN "Error de validacion: int()"
    ELSE IF ~float_parses(row.price) THEN "Error de validacion: float()"
    ELSE "ok"

_create_product_from_row(row) ==
    [sku |-> strip(str(row.sku)),
     name |-> strip(str(row.name)),
     expiration_date |-> parse_date(str(row.expiration_date)),
     quantity |-> int(row.quantity),
     price |-> float(row.price),
     location |-> strip(str(row.location)),
     product_type |-> strip(str(row.product_type)),
     provider_id |-> strip(str(row.provider_id)),
     photo_filename |-> optional_cell(row.photo_filename)]

(***************************************************************************)
(* Submitted files.  A filename is its text before the last '.' and its    *)
(* extension (NoDot: the name holds no '.'); a content is what pandas      *)
(* makes of the bytes: the format they are in and the data rows.           *)
(***************************************************************************)
NoDot == "<no dot>"

BaseRow ==
    [sku |-> "MED-0001", name |-> "Paracetamol 500mg",
     expiration_date |-> "2099-12-31T00:00:00Z", quantity |-> "10",
     price |-> "5000.50", location |-> "A-01-01", product_type |-> "Alto valor",
     provider_id |-> "550e8400-e29b-41d4-a716-446655440000",
     photo_filename |-> NaN]

RowA == BaseRow
RowB == [BaseRow EXCEPT !.sku = "MED-0002", !.name = "Ibuprofeno", !.quantity = "5"]
RowA2 == [BaseRow EXCEPT !.sku = " MED-0001 ", !.name = "Jeringa 5ml", !.quantity = "7"]
RowBad == [BaseRow EXCEPT !.sku = "BAD"]

RowPool == {RowA, RowB, RowA2, RowBad}

SeqsUpTo(S, n) == UNION {[1..k -> S] : k \in 0..n}

csv_name == [base |-> "productos", ext |-> "csv"]
CSV_name == [base |-> "productos.v2", ext |-> "CSV"]
xlsx_name == [base |-> "productos", ext |-> "xlsx"]
txt_name == [base |-> "productos", ext |-> "txt"]
nodot_name == [base |-> "productos", ext |-> NoDot]
empty_name == [base |-> "", ext |-> NoDot]

NoFile == [present |-> FALSE, filename |-> empty_name, format |-> "none", rows |-> << >>]

File(name, format, rows) ==
    [present |-> TRUE, filename |-> name, format |-> format, rows |-> rows]

\* str.lower() of an extension
lower(ext) ==
    CASE ext = "CSV" -> "csv"
      [] ext = "XLSX" -> "xlsx"
      [] OTHER -> ext

\* filename.lower().split('.')[-1]: of a name without '.', the whole name
extension(filename) ==
    IF filename.ext = NoDot THEN lower(filename.base) ELSE lower(filename.ext)

\* pd.read_csv / pd.read_excel by extension: TRUE when a DataFrame comes out
\* (read_csv reads text, read_excel a workbook)
reads(ext, format) ==
    \/ ext = "csv" /\ format = "csv"
    \/ ext \in {"xls", "xlsx"} /\ format = "excel"

(***************************************************************************)
(* State.                                                                  *)
(***************************************************************************)
VARIABLES
    config,      \* Config of the two services, as the environment sets it
    bucket,      \* Cloud Storage bucket: the blobs
    history,     \* table products_processed_history: id -> record
    topic,       \* Pub/Sub topic: the messages published
    products,    \* table products: the records
    uuids,       \* uuid4 values handed out so far
    clock,       \* datetime.utcnow(), a counter of the stamps taken
    faults,      \* failures of a store, the bucket or the topic still to come
    sub,         \* each import_products_file call
    inv,         \* each process_file_by_history_id call
    crt,         \* each ProductService.create_product call
    stk          \* each ProductRepository.update_stock call

vars == << config, bucket, history, topic, products, uuids, clock, faults, sub, inv, crt, stk >>

stores == << bucket, history, topic, products >>

NoKey == [base |-> "", uuid |-> 0, ext |-> NoDot]

NullResult == [kind |-> "null", successful |-> 0, total |-> 0, cause |-> ""]

\* f"{successful_records}/{total_records} productos registrados"
result_message(successful, total) ==
    [kind |-> "registrados", successful |-> successful, total |-> total, cause |-> ""]

\* the message of the exception left out of the result
error_result_without_cause(cause) ==
    [kind |-> "Error: ", successful |-> 0, total |-> 0, cause |-> ""]

\* f"Error: {str(e)}"
error_result(cause) ==
    [kind |-> "Error: ", successful |-> 0, total |-> 0, cause |-> cause]

NoHistory ==
    [id |-> 0, file_name |-> NoKey, user_id |-> "", status |-> "", result |-> NullResult,
     created_at |-> 0, updated_at |-> 0]

\* len(file_name) of a generated key: base, '_', the 36 characters of a uuid,
\* and '.' with the extension
key_len(key) ==
    Len(key.base) + 1 + 36 + (IF key.ext = NoDot THEN 0 ELSE 1 + Len(key.ext))

\* the two length checks left out
history_validate_without_lengths(h) ==
    IF h.file_name = NoKey THEN "El nombre del archivo es obligatorio"
    ELSE IF h.user_id = "" THEN "El ID del usuario es obligatorio"
    ELSE IF h.status = "" THEN "El estado es obligatorio"
    ELSE "ok"

\* ProductProcessedHistory.validate: "ok" or the message of its ValueError
history_validate(h) ==
    IF h.file_name = NoKey THEN "El nombre del archivo es obligatorio"
    ELSE IF h.user_id = "" THEN "El ID del usuario es obligatorio"
    ELSE IF h.status = "" THEN "El estado es obligatorio"
    ELSE IF key_len(h.file_name) > 100 THEN "El nombre del archivo no puede exceder 100 caracteres"
    ELSE IF Len(h.user_id) > 36 THEN "El ID del usuario no puede exceder 36 caracteres"
    ELSE IF Len(h.status) > 20 THEN "El estado no puede exceder 20 caracteres"
    ELSE "ok"

(***************************************************************************)
(* micro-inventarios: ProductImportService                                 *)
(***************************************************************************)
ValidUser == "7c9e6679-7425-40de-944b-e07fc1f90ae7"

Users == {"", "  ", ValidUser}

\* a userId of blanks taken for a userId
_validate_required_fields_unstripped(file, user_id) ==
    IF ~file.present \/ file.filename = empty_name THEN "El archivo es obligatorio"
    ELSE IF user_id = "" THEN "El userId es obligatorio"
    ELSE "ok"

\* _validate_required_fields
_validate_required_fields(file, user_id) ==
    IF ~file.present \/ file.filename = empty_name THEN "El archivo es obligatorio"
    ELSE IF user_id = "" \/ strip(user_id) = "" THEN "El userId es obligatorio"
    ELSE "ok"

\* _validate_file_type
_validate_file_type(file) ==
    IF file.filename = empty_name \/ file.filename.ext = NoDot THEN "El archivo no tiene extension"
    ELSE IF extension(file.filename) \notin {"csv", "xls", "xlsx"} THEN "Solo se permiten archivos CSV/Excel"
    ELSE "ok"

\* the limit compared one row too late
_validate_records_count_off_by_one(file, cfg) ==
    IF extension(file.filename) \notin {"csv", "xls", "xlsx"} THEN "Formato de archivo no soportado"
    ELSE IF ~reads(extension(file.filename), file.format) THEN "Error al validar el archivo"
    ELSE IF Len(file.rows) > cfg.MAX_IMPORT_PRODUCTS + 1 THEN "Solo se permiten cargar MAX_IMPORT_PRODUCTS productos"
    ELSE "ok"

\* _validate_records_count
_validate_records_count(file, cfg) ==
    IF extension(file.filename) \notin {"csv", "xls", "xlsx"} THEN "Formato de archivo no soportado"
    ELSE IF ~reads(extension(file.filename), file.format) THEN "Error al validar el archivo"
    ELSE IF Len(file.rows) > cfg.MAX_IMPORT_PRODUCTS THEN "Solo se permiten cargar MAX_IMPORT_PRODUCTS productos"
    ELSE "ok"

\* steps 1 to 3 of import_products_file: the message of the ValidationError
\* raised, or "ok"
validation(file, user_id, cfg) ==
    IF _validate_required_fields(file, user_id) # "ok" THEN _validate_required_fields(file, user_id)
    ELSE IF _validate_file_type(file) # "ok" THEN _validate_file_type(file)
    ELSE _validate_records_count(file, cfg)

\* _generate_new_filename: f"{base_name}_{file_uuid}.{extension}"
_generate_new_filename(original_filename, file_uuid) ==
    [base |-> original_filename.base, uuid |-> file_uuid, ext |-> original_filename.ext]

NewSub == [pc |-> "start", file |-> NoFile, user_id |-> "", new_filename |-> NoKey,
           history_id |-> 0, raised |-> ""]

sub_raise(s, error) == sub' = [sub EXCEPT ![s].pc = "done", ![s].raised = error]

\* import_products_file, steps 1 to 4: the three validations and the new name
import_products_file(s, file, user_id) ==
    /\ sub[s].pc = "start"
    /\ IF validation(file, user_id, config) # "ok"
       THEN /\ sub' = [sub EXCEPT ![s].pc = "done", ![s].raised = "ValidationError",
                                  ![s].file = file, ![s].user_id = user_id]
            /\ UNCHANGED uuids
       ELSE /\ uuids' = uuids + 1
            /\ sub' = [sub EXCEPT ![s].pc = "upload", ![s].file = file, ![s].user_id = user_id,
                                  ![s].new_filename = _generate_new_filename(file.filename, uuids + 1)]
    /\ UNCHANGED << config, bucket, history, topic, products, clock, faults, inv, crt, stk >>

\* the failure of the upload swallowed: the next step runs all the same
_upload_file_to_storage_swallows(s) ==
    /\ sub[s].pc = "upload"
    /\ faults > 0
    /\ faults' = faults - 1
    /\ sub' = [sub EXCEPT ![s].pc = "create_history"]
    /\ UNCHANGED << config, bucket, history, topic, products, uuids, clock, inv, crt, stk >>

\* step 5, _upload_file_to_storage: blob.upload_from_file(file)
_upload_file_to_storage(s) ==
    /\ sub[s].pc = "upload"
    /\ \/ /\ bucket' = bucket \cup
                {[folder |-> config.submitter_folder, name |-> sub[s].new_filename,
                  format |-> sub[s].file.format, rows |-> sub[s].file.rows,
                  original_filename |-> sub[s].file.filename]}
          /\ sub' = [sub EXCEPT ![s].pc = "create_history"]
          /\ UNCHANGED faults
       \/ /\ faults > 0
          /\ faults' = faults - 1
          /\ sub_raise(s, "BusinessLogicError")
          /\ UNCHANGED bucket
    /\ UNCHANGED << config, history, topic, products, uuids, clock, inv, crt, stk >>

\* the job created under the name the client gave the file
_create_history_record_original_name(s) ==
    /\ sub[s].pc = "create_history"
    /\ LET h == [id |-> uuids + 1,
                 file_name |-> [base |-> sub[s].file.filename.base, uuid |-> 0,
                                ext |-> sub[s].file.filename.ext],
                 user_id |-> sub[s].user_id, status |-> EN_CURSO, result |-> NullResult,
                 created_at |-> clock, updated_at |-> 0]
       IN \/ /\ history' = (h.id :> h) @@ history
             /\ uuids' = uuids + 1
             /\ clock' = clock + 1
             /\ sub' = [sub EXCEPT ![s].pc = "publish", ![s].history_id = h.id]
             /\ UNCHANGED faults
          \/ /\ faults > 0
             /\ faults' = faults - 1
             /\ sub_raise(s, "BusinessLogicError")
             /\ UNCHANGED << history, uuids, clock >>
    /\ UNCHANGED << config, bucket, topic, products, inv, crt, stk >>

\* the record built and its id passed on, the INSERT left out
_create_history_record_unsaved(s) ==
    /\ sub[s].pc = "create_history"
    /\ uuids' = uuids + 1
    /\ sub' = [sub EXCEPT ![s].pc = "publish", ![s].history_id = uuids + 1]
    /\ UNCHANGED << config, bucket, history, topic, products, clock, faults, inv, crt, stk >>

\* step 6, _create_history_record: ProductProcessedHistory(...) and
\* ProductProcessedHistoryRepository.create
_create_history_record(s) ==
    /\ sub[s].pc = "create_history"
    /\ LET h == [id |-> uuids + 1, file_name |-> sub[s].new_filename,
                 user_id |-> sub[s].user_id, status |-> EN_CURSO, result |-> NullResult,
                 created_at |-> clock, updated_at |-> 0]
       IN IF history_validate(h) # "ok"
          THEN /\ sub_raise(s, "BusinessLogicError")
               /\ UNCHANGED << history, uuids, clock, faults >>
          ELSE \/ /\ history' = (h.id :> h) @@ history
                  /\ uuids' = uuids + 1
                  /\ clock' = clock + 1
                  /\ sub' = [sub EXCEPT ![s].pc = "publish", ![s].history_id = h.id]
                  /\ UNCHANGED faults
               \/ /\ faults > 0
                  /\ faults' = faults - 1
                  /\ sub_raise(s, "BusinessLogicError")
                  /\ UNCHANGED << history, uuids, clock >>
    /\ UNCHANGED << config, bucket, topic, products, inv, crt, stk >>

\* the job deleted again when the event cannot be published
_publish_import_event_rolls_back(s) ==
    /\ sub[s].pc = "publish"
    /\ \/ /\ topic' = topic \cup
                {[message_id |-> Cardinality(topic) + 1, history_id |-> sub[s].history_id,
                  event_type |-> "product_import"]}
          /\ sub' = [sub EXCEPT ![s].pc = "done"]
          /\ UNCHANGED << faults, history >>
       \/ /\ faults > 0
          /\ faults' = faults - 1
          /\ sub_raise(s, "BusinessLogicError")
          /\ history' = [id \in DOMAIN history \ {sub[s].history_id} |-> history[id]]
          /\ UNCHANGED topic
    /\ UNCHANGED << config, bucket, products, uuids, clock, inv, crt, stk >>

\* step 7, _publish_import_event: PubSubService.publish_product_import_event
_publish_import_event(s) ==
    /\ sub[s].pc = "publish"
    /\ \/ /\ topic' = topic \cup
                {[message_id |-> Cardinality(topic) + 1, history_id |-> sub[s].history_id,
                  event_type |-> "product_import"]}
          /\ sub' = [sub EXCEPT ![s].pc = "done"]
          /\ UNCHANGED faults
       \/ /\ faults > 0
          /\ faults' = faults - 1
          /\ sub_raise(s, "BusinessLogicError")
          /\ UNCHANGED topic
    /\ UNCHANGED << config, bucket, history, products, uuids, clock, inv, crt, stk >>

(***************************************************************************)
(* repositories/product_repository.py                                      *)
(***************************************************************************)
\* f"Error al crear producto: {str(e)}" of the two SQLAlchemyErrors
INTEGRITY_ERROR == "Error al crear producto: IntegrityError"
OPERATIONAL_ERROR == "Error al crear producto: OperationalError"

\* the constraint dropped: no INSERT is refused
sku_not_unique(product, table) == FALSE

\* the constraint put on (sku, name) instead of sku
sku_and_name_unique(product, table) ==
    \E r \in table : r.sku = product.sku /\ r.name = product.name

\* ProductDB.sku is unique=True: the INSERT of a second row with the sku
\* raises IntegrityError
sku_unique_violation(product, table) == \E r \in table : r.sku = product.sku

\* ProductDB.id, autoincrement
next_product_id(table) == Cardinality(table) + 1

\* ProductRepository.create: "ok", or the message of the exception it raises
\* (db_error: the session fails for a reason of its own)
create_error(product, table, db_error) ==
    IF validate(product) # "ok" THEN validate(product)
    ELSE IF db_error THEN OPERATIONAL_ERROR
    ELSE IF sku_unique_violation(product, table) THEN INTEGRITY_ERROR
    ELSE "ok"

\* ProductRepository.create: the table after session.add and session.commit
create(product, table) ==
    table \cup {[id |-> next_product_id(table), sku |-> product.sku, name |-> product.name,
                 expiration_date |-> product.expiration_date, quantity |-> product.quantity,
                 price |-> product.price, location |-> product.location,
                 product_type |-> product.product_type, provider_id |-> product.provider_id,
                 photo_filename |-> product.photo_filename]}

(***************************************************************************)
(* repositories/product_processed_history_repository.py                    *)
(***************************************************************************)
\* created_at written with the stamp of the update
update_renews_created_at(h, table, now) ==
    IF h.id \in DOMAIN table
    THEN [table EXCEPT ![h.id] = [@ EXCEPT !.file_name = h.file_name, !.user_id = h.user_id,
                                           !.status = h.status, !.result = h.result,
                                           !.created_at = now, !.updated_at = now]]
    ELSE table

\* db_history.updated_at left as it was
update_without_stamp(h, table, now) ==
    IF h.id \in DOMAIN table
    THEN [table EXCEPT ![h.id] = [@ EXCEPT !.file_name = h.file_name, !.user_id = h.user_id,
                                           !.status = h.status, !.result = h.result]]
    ELSE table

\* ProductProcessedHistoryRepository.update: the table after the commit; a
\* record that is not there is left alone
update(h, table, now) ==
    IF h.id \in DOMAIN table
    THEN [table EXCEPT ![h.id] = [@ EXCEPT !.file_name = h.file_name, !.user_id = h.user_id,
                                           !.status = h.status, !.result = h.result,
                                           !.updated_at = now]]
    ELSE table

(***************************************************************************)
(* app: ProductFileProcessorService.process_file_by_history_id             *)
(***************************************************************************)
\* an id no submission was given: the uuid (a non-empty string, so the
\* controller passes it on) of a forged or stale envelope
UnknownId == 0

\* str(e) of the exceptions the try block is left with
NOT_FOUND == "No se encontro registro de historial con ID"
GET_FAILED == "Error al obtener registro de historial por ID"
NO_BLOB == "El archivo no existe en el bucket"
DOWNLOAD_FAILED == "Error al descargar archivo desde Cloud Storage"
UNSUPPORTED == "Error al leer archivo: Formato de archivo no soportado"
UNREADABLE == "Error al leer archivo"
UPDATE_FAILED == "Error al actualizar registro de historial"

\* The push request of Pub/Sub, as process_products_file takes it apart:
\*   body     request.get_json(force=True): "invalid" (it raises), "empty"
\*            (a falsy value), "number" or "object"
\*   message  pubsub_message['message']: "absent", "null" or "object"
\*   data     message['data']: "absent", "null", "garbage" (no base64 of a
\*            JSON text) or "base64 json"
\*   event    json.loads(data_decoded): "null" or "object"
\*   has_history_id, history_id: event_data.get('history_id')
Envelope(body, message, data, event, has_history_id, history_id) ==
    [body |-> body, message |-> message, data |-> data, event |-> event,
     has_history_id |-> has_history_id, history_id |-> history_id]

NoEnvelope == Envelope("", "", "", "", FALSE, 0)

\* what Pub/Sub pushes for a message of the topic
PubSubPush(history_id) ==
    Envelope("object", "object", "base64 json", "object", TRUE, history_id)

\* the envelopes that are not of that shape, each with one defect
Malformed ==
    {Envelope("invalid", "", "", "", FALSE, 0),
     Envelope("empty", "", "", "", FALSE, 0),
     Envelope("number", "", "", "", FALSE, 0),
     Envelope("object", "absent", "", "", FALSE, 0),
     Envelope("object", "null", "", "", FALSE, 0),
     Envelope("object", "object", "absent", "", FALSE, 0),
     Envelope("object", "object", "null", "", FALSE, 0),
     Envelope("object", "object", "garbage", "", FALSE, 0),
     Envelope("object", "object", "base64 json", "null", FALSE, 0),
     Envelope("object", "object", "base64 json", "object", FALSE, 0)}

NoRejection == 0

\* process_products_file up to the call of the processor: the status it
\* returns without calling it, or NoRejection.  "in" of a number or of None
\* and .get of None raise TypeError / AttributeError, which the outer except
\* answers with 500.
rejection(envelope) ==
    IF envelope.body \in {"invalid", "empty"} THEN 400
    ELSE IF envelope.body = "number" THEN 500
    ELSE IF envelope.message = "absent" THEN 400
    ELSE IF envelope.message = "null" THEN 500
    ELSE IF envelope.data = "absent" THEN 400
    ELSE IF envelope.data \in {"null", "garbage"} THEN 400
    ELSE IF envelope.event = "null" THEN 500
    ELSE IF ~envelope.has_history_id THEN 400
    ELSE NoRejection

NoResponse == [status |-> 0, success |-> FALSE]

\* jsonify({"success": False, ...}), status
error_response(status) == [status |-> status, success |-> FALSE]

\* a result with failed rows answered as a failure
ok_response_unless_failed(failed_records) ==
    IF failed_records > 0 THEN [status |-> 500, success |-> FALSE]
    ELSE [status |-> 200, success |-> TRUE]

\* jsonify({"success": True, ..., "data": result}), 200
ok_response(failed_records) == [status |-> 200, success |-> TRUE]

\* all_stored is no variable of the program: it records whether, when the
\* file was read, the job was "Finalizado" and every row's sku was stored
\* (as recovery_failed records that the lookup or the update of the except
\* block raised, which the program only logs)
NewInv == [pc |-> "idle", history_id |-> 0, history |-> NoHistory, rows |-> << >>,
           index |-> 0, total_records |-> 0, successful_records |-> 0,
           failed_records |-> 0, errors |-> << >>, e |-> "",
           envelope |-> NoEnvelope, response |-> NoResponse, all_stored |-> FALSE,
           recovery_failed |-> FALSE]

\* the try block is left for the except block with exception e
inv_except(p, e) == inv' = [inv EXCEPT ![p].pc = "except", ![p].e = e]

\* process_products_file calls process_file_by_history_id(history_id)
process_file_by_history_id(p, history_id) ==
    /\ inv[p].pc = "idle"
    /\ inv' = [inv EXCEPT ![p].pc = "get_by_id", ![p].history_id = history_id]
    /\ UNCHANGED << config, bucket, history, topic, products, uuids, clock, faults, sub, crt, stk >>

\* "if not history: raise" left out
get_by_id_unchecked(p) ==
    /\ inv[p].pc = "get_by_id"
    /\ inv' = [inv EXCEPT ![p].pc = "download_file",
                          ![p].history = IF inv[p].history_id \in DOMAIN history
                                         THEN history[inv[p].history_id] ELSE NoHistory]
    /\ UNCHANGED << config, bucket, history, topic, products, uuids, clock, faults, sub, crt, stk >>

\* POST /inventory-procesor: the envelope is rejected, or the processor is
\* called with its history_id
process_products_file(p, envelope) ==
    IF rejection(envelope) = NoRejection
    THEN process_file_by_history_id(p, envelope.history_id)
    ELSE /\ inv[p].pc = "idle"
         /\ inv' = [inv EXCEPT ![p].pc = "answered", ![p].envelope = envelope,
                               ![p].response = error_response(rejection(envelope))]
         /\ UNCHANGED << config, bucket, history, topic, products, uuids, clock, faults, sub, crt, stk >>

\* 1. history = self.history_repository.get_by_id(history_id)
get_by_id(p) ==
    /\ inv[p].pc = "get_by_id"
    /\ \/ /\ IF inv[p].history_id \in DOMAIN history
             THEN inv' = [inv EXCEPT ![p].pc = "download_file",
                                     ![p].history = history[inv[p].history_id]]
             ELSE inv_except(p, NOT_FOUND)
          /\ UNCHANGED faults
       \/ /\ faults > 0
          /\ faults' = faults - 1
          /\ inv_except(p, GET_FAILED)
    /\ UNCHANGED << config, bucket, history, topic, products, uuids, clock, sub, crt, stk >>

\* the blob download_file(history.file_name, BUCKET_FOLDER_PROCESSED_PRODUCTS) reads
blobs_at(folder, name) == {b \in bucket : b.folder = folder /\ b.name = name}

\* 2. download_file and the head of _process_file_content: the extension and
\* pd.read_csv / pd.read_excel
download_file(p) ==
    /\ inv[p].pc = "download_file"
    /\ LET found == blobs_at(config.consumer_folder, inv[p].history.file_name)
           ext == extension(inv[p].history.file_name)
       IN \/ /\ UNCHANGED faults
             /\ IF found = {} THEN inv_except(p, NO_BLOB)
                ELSE LET blob == CHOOSE b \in found : TRUE
                     IN IF ext \notin {"csv", "xls", "xlsx"}
                        THEN inv_except(p, UNSUPPORTED)
                        ELSE IF ~reads(ext, blob.format)
                        THEN inv_except(p, UNREADABLE)
                        ELSE inv' = [inv EXCEPT
                                 ![p].pc = IF Len(blob.rows) = 0 THEN "update" ELSE "iterrows",
                                 ![p].rows = blob.rows,
                                 ![p].total_records = Len(blob.rows),
                                 ![p].all_stored =
                                     /\ inv[p].history.status = FINALIZADO
                                     /\ \A k \in 1..Len(blob.rows) :
                                            \E r \in products :
                                                r.sku = strip(str(blob.rows[k].sku))]
          \/ /\ faults > 0
             /\ faults' = faults - 1
             /\ inv_except(p, DOWNLOAD_FAILED)
    /\ UNCHANGED << config, bucket, history, topic, products, uuids, clock, sub, crt, stk >>

\* the label counted from the first data row
error_message_from_data_row(index, e) == [fila |-> index + 1, e |-> e]

\* f"Fila {index + 2}: {str(e)}"
error_message(index, e) == [fila |-> index + 2, e |-> e]

\* the loop left for the update after its first pass
next_row_leaves_early(i) == [i EXCEPT !.index = @ + 1, !.pc = "update"]

\* the next pass of the loop, or the statement after it
next_row(i) ==
    [i EXCEPT !.index = @ + 1,
              !.pc = IF i.index + 1 = i.total_records THEN "update" ELSE "iterrows"]

\* the stored row not counted
row_succeeded_uncounted(i) == next_row(i)

\* successful_records += 1
row_succeeded(i) == next_row([i EXCEPT !.successful_records = @ + 1])

\* the row that failed is the row of the next pass again
row_failed_retries(i, e) == i

\* the row's failure is logged and not counted
row_failed_uncounted(i, e) ==
    next_row([i EXCEPT !.errors = Append(@, error_message(i.index, e))])

\* the row's exception leaves the loop for the outer except block
row_failed_aborts(i, e) ==
    [i EXCEPT !.failed_records = @ + 1,
              !.errors = Append(@, error_message(i.index, e)),
              !.pc = "except", !.e = e]

\* except Exception as e: failed_records += 1; errors.append(error_message)
row_failed(i, e) ==
    next_row([i EXCEPT !.failed_records = @ + 1,
                       !.errors = Append(@, error_message(i.index, e))])

\* one pass of "for index, row in df.iterrows()": _create_product_from_row,
\* product_repository.create and the counters
iterrows(p) ==
    /\ inv[p].pc = "iterrows"
    /\ LET row == inv[p].rows[inv[p].index + 1]
           product == _create_product_from_row(row)
       IN IF row_error(row) # "ok"
          THEN /\ inv' = [inv EXCEPT ![p] = row_failed(@, row_error(row))]
               /\ UNCHANGED << products, faults >>
          ELSE \/ /\ UNCHANGED faults
                  /\ IF create_error(product, products, FALSE) # "ok"
                     THEN /\ inv' = [inv EXCEPT
                                 ![p] = row_failed(@, create_error(product, products, FALSE))]
                          /\ UNCHANGED products
                     ELSE /\ products' = create(product, products)
                          /\ inv' = [inv EXCEPT ![p] = row_succeeded(@)]
               \/ /\ faults > 0
                  /\ validate(product) = "ok"
                  /\ faults' = faults - 1
                  /\ inv' = [inv EXCEPT
                         ![p] = row_failed(@, create_error(product, products, TRUE))]
                  /\ UNCHANGED products
    /\ UNCHANGED << config, bucket, history, topic, uuids, clock, sub, crt, stk >>

\* 4. history.status = "Finalizado" ... self.history_repository.update(history),
\* and the return of the result
update_history(p) ==
    /\ inv[p].pc = "update"
    /\ LET h == [inv[p].history EXCEPT
                    !.status = FINALIZADO,
                    !.result = result_message(inv[p].successful_records, inv[p].total_records),
                    !.updated_at = clock]
       IN \/ /\ history' = update(h, history, clock)
             /\ clock' = clock + 1
             /\ inv' = [inv EXCEPT ![p].pc = "returned", ![p].history = h,
                                   ![p].response = ok_response(inv[p].failed_records)]
             /\ UNCHANGED faults
          \/ /\ faults > 0
             /\ faults' = faults - 1
             /\ inv' = [inv EXCEPT ![p].pc = "except", ![p].history = h,
                                   ![p].e = UPDATE_FAILED]
             /\ UNCHANGED << history, clock >>
    /\ UNCHANGED << config, bucket, topic, products, uuids, sub, crt, stk >>

\* except Exception as e: history = self.history_repository.get_by_id(history_id)
except_get_by_id(p) ==
    /\ inv[p].pc = "except"
    /\ \/ /\ IF inv[p].history_id \in DOMAIN history
             THEN inv' = [inv EXCEPT ![p].pc = "except_update",
                                     ![p].history = history[inv[p].history_id]]
             ELSE inv' = [inv EXCEPT ![p].pc = "raised", ![p].response = error_response(500)]
          /\ UNCHANGED faults
       \/ /\ faults > 0
          /\ faults' = faults - 1
          /\ inv' = [inv EXCEPT ![p].pc = "raised", ![p].response = error_response(500),
                                ![p].recovery_failed = TRUE]
    /\ UNCHANGED << config, bucket, history, topic, products, uuids, clock, sub, crt, stk >>

\* the products of the file taken out again when the invocation fails
except_update_rolls_back_products(p) ==
    /\ inv[p].pc = "except_update"
    /\ LET h == [inv[p].history EXCEPT
                    !.status = ERROR, !.result = error_result(inv[p].e), !.updated_at = clock]
       IN /\ history' = update(h, history, clock)
          /\ clock' = clock + 1
          /\ products' = {r \in products :
                             \A k \in 1..Len(inv[p].rows) : r.sku # strip(str(inv[p].rows[k].sku))}
          /\ inv' = [inv EXCEPT ![p].pc = "raised", ![p].history = h,
                                ![p].response = error_response(500)]
    /\ UNCHANGED << config, bucket, topic, uuids, faults, sub, crt, stk >>

\* the failure of the compensating update raised in place of the first one
except_update_raises_second(p) ==
    /\ inv[p].pc = "except_update"
    /\ LET h == [inv[p].history EXCEPT
                    !.status = ERROR, !.result = error_result(inv[p].e), !.updated_at = clock]
       IN \/ /\ history' = update(h, history, clock)
             /\ clock' = clock + 1
             /\ inv' = [inv EXCEPT ![p].pc = "raised", ![p].history = h,
                                   ![p].response = error_response(500)]
             /\ UNCHANGED faults
          \/ /\ faults > 0
             /\ faults' = faults - 1
             /\ inv' = [inv EXCEPT ![p].pc = "raised", ![p].e = UPDATE_FAILED,
                                   ![p].response = error_response(500),
                                   ![p].recovery_failed = TRUE]
             /\ UNCHANGED << history, clock >>
    /\ UNCHANGED << config, bucket, topic, products, uuids, sub, crt, stk >>

\* history.status = "Error" ... self.history_repository.update(history), then
\* raise Exception(f"Error al procesar archivo: {str(e)}")
except_update(p) ==
    /\ inv[p].pc = "except_update"
    /\ LET h == [inv[p].history EXCEPT
                    !.status = ERROR, !.result = error_result(inv[p].e), !.updated_at = clock]
       IN \/ /\ history' = update(h, history, clock)
             /\ clock' = clock + 1
             /\ inv' = [inv EXCEPT ![p].pc = "raised", ![p].history = h,
                                   ![p].response = error_response(500)]
             /\ UNCHANGED faults
          \/ /\ faults > 0
             /\ faults' = faults - 1
             /\ inv' = [inv EXCEPT ![p].pc = "raised", ![p].response = error_response(500),
                                   ![p].recovery_failed = TRUE]
             /\ UNCHANGED << history, clock >>
    /\ UNCHANGED << config, bucket, topic, products, uuids, sub, crt, stk >>

(***************************************************************************)
(* micro-inventarios: ProductService.create_product (one product)          *)
(***************************************************************************)
\* _validate_required_fields and _create_product_instance: "ok" or the
\* message of the ValidationError
instance_error(data) ==
    IF \E c \in RequiredColumns : data[c] \in {NoColumn, ""} THEN "Campos requeridos faltantes"
    ELSE IF ~date_parses(data.expiration_date) THEN "Formato de fecha de vencimiento invalido"
    ELSE IF ~int_parses(data.quantity) \/ ~float_parses(data.price)
         THEN "Error en conversion de tipos numericos"
    ELSE "ok"

\* _create_product_instance: str(), int() and float() of the request's fields
_create_product_instance(data) ==
    [sku |-> str(data.sku), name |-> str(data.name),
     expiration_date |-> parse_date(data.expiration_date),
     quantity |-> int(data.quantity), price |-> float(data.price),
     location |-> str(data.location), product_type |-> str(data.product_type),
     provider_id |-> str(data.provider_id),
     photo_filename |-> IF data.photo_filename \in {NoColumn, NaN, ""} THEN None
                        ELSE str(data.photo_filename)]

NewCrt == [pc |-> "start", product_data |-> BaseRow, raised |-> ""]

crt_raise(c, data, error) ==
    crt' = [crt EXCEPT ![c].pc = "done", ![c].product_data = data, ![c].raised = error]

\* create_product up to _validate_business_rules: get_by_sku(product.sku)
\* and product.validate()
_validate_business_rules(c, data) ==
    /\ crt[c].pc = "start"
    /\ IF instance_error(data) # "ok"
       THEN /\ crt_raise(c, data, "ValidationError")
            /\ UNCHANGED faults
       ELSE LET product == _create_product_instance(data)
            IN \/ /\ UNCHANGED faults
                  /\ IF \E r \in products : r.sku = product.sku
                     THEN crt_raise(c, data, "BusinessLogicError")
                     ELSE IF validate(product) # "ok"
                     THEN crt_raise(c, data, "BusinessLogicError")
                     ELSE crt' = [crt EXCEPT ![c].pc = "create", ![c].product_data = data]
               \/ /\ faults > 0
                  /\ faults' = faults - 1
                  /\ crt_raise(c, data, "BusinessLogicError")
    /\ UNCHANGED << config, bucket, history, topic, products, uuids, clock, sub, inv, stk >>

\* created_product = self.product_repository.create(product)
repository_create(c) ==
    /\ crt[c].pc = "create"
    /\ LET product == _create_product_instance(crt[c].product_data)
       IN \/ /\ UNCHANGED faults
             /\ IF create_error(product, products, FALSE) # "ok"
                THEN /\ crt' = [crt EXCEPT ![c].pc = "done", ![c].raised = "BusinessLogicError"]
                     /\ UNCHANGED products
                ELSE /\ products' = create(product, products)
                     /\ crt' = [crt EXCEPT ![c].pc = "done"]
          \/ /\ faults > 0
             /\ faults' = faults - 1
             /\ crt' = [crt EXCEPT ![c].pc = "done", ![c].raised = "BusinessLogicError"]
             /\ UNCHANGED products
    /\ UNCHANGED << config, bucket, history, topic, uuids, clock, sub, inv, stk >>

(***************************************************************************)
(* micro-inventarios: ProductRepository.update_stock.  The session reads   *)
(* the product (SELECT) and writes the quantity it computed from that read *)
(* at the commit (UPDATE ... SET quantity = new_quantity): two statements, *)
(* with no lock and no version column, in a transaction of the database's  *)
(* default isolation.  The stamps of a product are not part of the model.  *)
(***************************************************************************)
NewStk == [pc |-> "start", product_id |-> 0, operation |-> "", quantity |-> 0,
           current_quantity |-> 0, new_quantity |-> 0, raised |-> ""]

\* the call ends with an exception; what it had read stays in its record
stk_raise(u, product_id, operation, quantity, current_quantity, error) ==
    stk' = [stk EXCEPT ![u].pc = "done", ![u].product_id = product_id,
                       ![u].operation = operation, ![u].quantity = quantity,
                       ![u].current_quantity = current_quantity,
                       ![u].raised = error]

\* "if new_quantity < 0: raise" left out
stock_error_without_stock_check(found, operation, quantity, current_quantity) ==
    IF ~found THEN "Producto no encontrado"
    ELSE IF operation \notin {"add", "subtract"} THEN "La operacion debe ser 'add' o 'subtract'"
    ELSE IF quantity <= 0 THEN "La cantidad debe ser mayor a 0"
    ELSE "ok"

\* "Producto con ID ... no encontrado", "La operacion debe ser 'add' o
\* 'subtract'", "La cantidad debe ser mayor a 0", "Stock insuficiente": the
\* message of the ValueError of a call that read current_quantity, or "ok"
stock_error(found, operation, quantity, current_quantity) ==
    IF ~found THEN "Producto no encontrado"
    ELSE IF operation \notin {"add", "subtract"} THEN "La operacion debe ser 'add' o 'subtract'"
    ELSE IF quantity <= 0 THEN "La cantidad debe ser mayor a 0"
    ELSE IF operation = "subtract" /\ current_quantity - quantity < 0 THEN "Stock insuficiente"
    ELSE "ok"

\* new_quantity = current_quantity + quantity, or - quantity
new_quantity(operation, quantity, current_quantity) ==
    IF operation = "add" THEN current_quantity + quantity ELSE current_quantity - quantity

\* db_product.quantity of the row session.query(ProductDB).filter(id == product_id).first()
\* gives (0 when there is none)
stored_quantity(product_id, table) ==
    IF \E r \in table : r.id = product_id
    THEN (CHOOSE r \in table : r.id = product_id).quantity
    ELSE 0

\* the table after the UPDATE of the commit
set_quantity(product_id, quantity, table) ==
    {IF r.id = product_id THEN [r EXCEPT !.quantity = quantity] ELSE r : r \in table}

\* update_stock up to "db_product.quantity = new_quantity": the query and
\* the checks on what it read
update_stock(u, product_id, operation, quantity) ==
    /\ stk[u].pc = "start"
    /\ LET found == \E r \in products : r.id = product_id
           current_quantity == stored_quantity(product_id, products)
       IN \/ /\ UNCHANGED faults
             /\ IF stock_error(found, operation, quantity, current_quantity) # "ok"
                THEN stk_raise(u, product_id, operation, quantity, current_quantity, "ValueError")
                ELSE stk' = [stk EXCEPT
                        ![u].pc = "commit", ![u].product_id = product_id,
                        ![u].operation = operation, ![u].quantity = quantity,
                        ![u].current_quantity = current_quantity,
                        ![u].new_quantity = new_quantity(operation, quantity, current_quantity)]
          \/ /\ faults > 0
             /\ faults' = faults - 1
             /\ stk_raise(u, product_id, operation, quantity, 0, "Exception")
    /\ UNCHANGED << config, bucket, history, topic, products, uuids, clock, sub, inv, crt >>

\* session.commit(), and the return of the dict; or the SQLAlchemyError of
\* the commit, rolled back
update_stock_commit(u) ==
    /\ stk[u].pc = "commit"
    /\ \/ /\ products' = set_quantity(stk[u].product_id, stk[u].new_quantity, products)
          /\ stk' = [stk EXCEPT ![u].pc = "done"]
          /\ UNCHANGED faults
       \/ /\ faults > 0
          /\ faults' = faults - 1
          /\ stk' = [stk EXCEPT ![u].pc = "done", ![u].raised = "Exception"]
          /\ UNCHANGED products
    /\ UNCHANGED << config, bucket, history, topic, uuids, clock, sub, inv, crt >>

\* "quantity_changed" of the dict a call returned, with the sign of its
\* operation; 0 of a call that raised or has not returned
quantity_changed(u) ==
    IF stk[u].pc = "done" /\ stk[u].raised = ""
    THEN (IF stk[u].operation = "add" THEN stk[u].quantity ELSE 0 - stk[u].quantity)
    ELSE 0

(***************************************************************************)
(* Inputs and specifications.                                              *)
(***************************************************************************)
\* every file a client can send
AllFiles ==
    {NoFile} \cup
    {File(n, f, r) : n \in {csv_name, CSV_name, xlsx_name, txt_name, nodot_name, empty_name},
                     f \in {"csv", "excel", "garbage"},
                     r \in SeqsUpTo({RowA}, MaxRows)}

\* the files sent in the runs that go on to the processor
PipelineFiles ==
    {File(csv_name, "csv", r) : r \in SeqsUpTo(RowPool, MaxRows)}
    \cup {File(xlsx_name, "excel", << RowB >>), File(txt_name, "csv", << RowA >>)}

ProductData == {RowA}

\* the environment of the two services: the processor finds the folder of
\* micro-inventarios only when BUCKET_FOLDER_PROCESSED_PRODUCTS is set for it
Configs(folders, limits) ==
    [consumer_folder : folders,
     submitter_folder : {FOLDER_DEFAULT_INVENTARIOS},
     MAX_IMPORT_PRODUCTS : limits]

\* the two services started on empty stores, with n failures to come
InitFaults(folders, limits, n) ==
    /\ config \in Configs(folders, limits)
    /\ bucket = {}
    /\ history = << >>
    /\ topic = {}
    /\ products = {}
    /\ uuids = 0
    /\ clock = 1
    /\ faults = n
    /\ sub = [s \in Submissions |-> NewSub]
    /\ inv = [p \in Invocations |-> NewInv]
    /\ crt = [c \in Creators |-> NewCrt]
    /\ stk = [u \in Updaters |-> NewStk]

InitWith(folders, limits) == InitFaults(folders, limits, MaxFaults)

\* Pub/Sub pushes a published message (at least once), or a client posts an
\* envelope with an id of its own
Deliverable == {m.history_id : m \in topic} \cup {UnknownId}

Submit(S, files, users) ==
    \E s \in S :
        \/ \E file \in files, user_id \in users : import_products_file(s, file, user_id)
        \/ _upload_file_to_storage(s)
        \/ _create_history_record(s)
        \/ _publish_import_event(s)

Process ==
    \E p \in Invocations :
        \/ \E history_id \in Deliverable : process_products_file(p, PubSubPush(history_id))
        \/ get_by_id(p)
        \/ download_file(p)
        \/ iterrows(p)
        \/ update_history(p)
        \/ except_get_by_id(p)
        \/ except_update(p)

CreateProduct ==
    \E c \in Creators :
        \/ \E data \in ProductData : _validate_business_rules(c, data)
        \/ repository_create(c)

\* the whole pipeline: a submission, the deliveries of its event and the
\* single-product creations beside them
Init == InitWith({FOLDER_DEFAULT_PROCESSOR, FOLDER_DEFAULT_INVENTARIOS}, {MaxRows})

Next == Submit({"s1"}, PipelineFiles, {ValidUser}) \/ Process \/ CreateProduct

Spec == Init /\ [][Next]_vars

\* two submissions alone, with every file, user and limit
InitSubmit == InitWith({FOLDER_DEFAULT_PROCESSOR}, {MaxRows - 1, MaxRows})

NextSubmit == Submit(Submissions, AllFiles, Users)

SpecSubmit == InitSubmit /\ [][NextSubmit]_vars

\* the endpoint of the processor with every envelope: one submission and
\* the requests that reach POST /inventory-procesor
EndpointFiles == {File(csv_name, "csv", r) : r \in SeqsUpTo({RowA, RowBad}, MaxRows)}

Deliver ==
    \E p \in Invocations :
        \/ \E envelope \in Malformed \cup {PubSubPush(id) : id \in Deliverable} :
               process_products_file(p, envelope)
        \/ get_by_id(p)
        \/ download_file(p)
        \/ iterrows(p)
        \/ update_history(p)
        \/ except_get_by_id(p)
        \/ except_update(p)

NextEndpoint == Submit({"s1"}, EndpointFiles, {ValidUser}) \/ Deliver

SpecEndpoint == Init /\ [][NextEndpoint]_vars

\* ProductRepository.create with every kind of candidate: files of one row,
\* the row good or with one field that Product.validate refuses
RowVariants ==
    {RowA, RowBad,
     [RowA EXCEPT !.sku = "  "],
     [RowA EXCEPT !.name = "ab"],
     [RowA EXCEPT !.name = "Paracetamol (500mg)"],
     [RowA EXCEPT !.expiration_date = "2000-01-01"],
     [RowA EXCEPT !.quantity = "0"],
     [RowA EXCEPT !.quantity = "1"],
     [RowA EXCEPT !.quantity = "9999"],
     [RowA EXCEPT !.quantity = "10000"],
     [RowA EXCEPT !.price = "0"],
     [RowA EXCEPT !.price = "-1.5"],
     [RowA EXCEPT !.location = "A-1-1"],
     [RowA EXCEPT !.product_type = "Generico"],
     [RowA EXCEPT !.provider_id = "proveedor-1"],
     [RowA EXCEPT !.provider_id = "550E8400-E29B-41D4-A716-446655440000"],
     [RowA EXCEPT !.photo_filename = "photo.jpg"],
     [RowA EXCEPT !.photo_filename = "ficha.pdf"]}

VariantFiles == {File(csv_name, "csv", << r >>) : r \in RowVariants}

InitRows == InitWith({FOLDER_DEFAULT_INVENTARIOS}, {MaxRows})

NextRows == Submit({"s1"}, VariantFiles, {ValidUser}) \/ Process

SpecRows == InitRows /\ [][NextRows]_vars

\* one submission and its deliveries, with store failures enough for each
\* of two invocations to fail MaxFaults times in its work and once more in
\* its recovery
RecoveryFiles == {File(csv_name, "csv", r) : r \in SeqsUpTo({RowA, RowB}, MaxRows)}

InitRecovery == InitFaults({FOLDER_DEFAULT_INVENTARIOS}, {MaxRows}, 2 * (MaxFaults + 1))

NextRecovery == Submit({"s1"}, RecoveryFiles, {ValidUser}) \/ Process

SpecRecovery == InitRecovery /\ [][NextRecovery]_vars

\* a submission and its deliveries with the scheduling of the processor:
\* an invocation that can take a step takes one in the end (each request
\* runs in a thread of its own that nothing waits on); the failures to come
\* are enough for an invocation to fail in its work and in its recovery
LiveFiles == {File(csv_name, "csv", r) : r \in SeqsUpTo({RowA}, MaxRows)}

InitLive == InitFaults({FOLDER_DEFAULT_INVENTARIOS}, {MaxRows}, MaxFaults + 1)

NextLive == Submit({"s1"}, LiveFiles, {ValidUser}) \/ Process

Run(p) ==
    \/ get_by_id(p)
    \/ download_file(p)
    \/ iterrows(p)
    \/ update_history(p)
    \/ except_get_by_id(p)
    \/ except_update(p)

SpecLive == InitLive /\ [][NextLive]_vars /\ \A p \in Invocations : WF_vars(Run(p))

\* submissions that pass the three validations with a userId of 36 or of 37
\* characters and a file name that gives a key of 50, of 100 or of 101
OrphanUsers == {ValidUser, "7c9e6679-7425-40de-944b-e07fc1f90ae7x"}

OrphanFiles ==
    {File([base |-> b, ext |-> "csv"], "csv", << RowA >>) :
        b \in {"productos", "inventario_de_productos_farmaceuticos_bodega_central_2025_q", "inventario_de_productos_farmaceuticos_bodega_central_2025_qs"}}

NextOrphan == Submit(Submissions, OrphanFiles, OrphanUsers)

SpecOrphan == InitSubmit /\ [][NextOrphan]_vars

\* the arguments update_stock is called with
StockOperations == {"add", "subtract", "set"}
StockQuantities == {0, 4, 12}
StockProductIds == {1, 2}

UpdateStock ==
    \E u \in Updaters :
        \/ \E product_id \in StockProductIds, operation \in StockOperations,
              quantity \in StockQuantities :
               update_stock(u, product_id, operation, quantity)
        \/ update_stock_commit(u)

\* one product, created by create_product, and the stock updates on it
NextStock == CreateProduct \/ UpdateStock

SpecStock == InitRows /\ [][NextStock]_vars

(***************************************************************************)
(* Properties of the import job (products_processed_history).              *)
(***************************************************************************)
\* C1: the status of a job changes only from "En curso", and only to
\* "Finalizado" or to "Error"; a job that is finalized or failed keeps its
\* status for good
C1_StatusLeavesOnlyPending ==
    [][\A id \in DOMAIN history :
          history'[id].status # history[id].status
              => /\ history[id].status = EN_CURSO
                 /\ history'[id].status \in {FINALIZADO, ERROR}]_vars

\* C2: the result of a job is null while the job is "En curso", and a job
\* whose result has been set is never written again
C2_ResultWrittenOnce ==
    [][\A id \in DOMAIN history :
          /\ history[id].status = EN_CURSO => history[id].result = NullResult
          /\ history[id].result # NullResult => history'[id] = history[id]]_vars

\* C3: every pass of the loop counts its row once, as successful when the
\* product was inserted and as failed, with one error entry that carries the
\* row's number, when it was not; after the last row successful + failed is
\* the number N of rows read, and the result written is successful/N
C3_CountsAndSummary ==
    /\ [](\A p \in Invocations :
             /\ inv[p].successful_records + inv[p].failed_records = inv[p].index
             /\ Len(inv[p].errors) = inv[p].failed_records
             /\ inv[p].total_records = Len(inv[p].rows)
             /\ inv[p].pc \in {"update", "returned"} => inv[p].index = inv[p].total_records)
    /\ [][\A p \in Invocations :
             inv[p].pc = "iterrows" /\ inv'[p] # inv[p]
                 => /\ inv'[p].index = inv[p].index + 1
                    /\ inv'[p].total_records = inv[p].total_records
                    /\ IF products' # products
                       THEN /\ inv'[p].successful_records = inv[p].successful_records + 1
                            /\ inv'[p].failed_records = inv[p].failed_records
                            /\ inv'[p].errors = inv[p].errors
                       ELSE /\ inv'[p].successful_records = inv[p].successful_records
                            /\ inv'[p].failed_records = inv[p].failed_records + 1
                            /\ Len(inv'[p].errors) = Len(inv[p].errors) + 1
                            /\ SubSeq(inv'[p].errors, 1, Len(inv[p].errors)) = inv[p].errors
                            /\ inv'[p].errors[Len(inv'[p].errors)].fila = inv[p].index + 2]_vars
    /\ [][\A p \in Invocations :
             inv[p].pc = "update" /\ inv'[p].pc = "returned"
                 => /\ history'[inv[p].history_id].result.kind = "registrados"
                    /\ history'[inv[p].history_id].result.successful = inv[p].successful_records
                    /\ history'[inv[p].history_id].result.total = Len(inv[p].rows)]_vars

\* a file of two rows, one inserted and one not, finalized as 1/2
C3_Witness ==
    \E p \in Invocations :
        /\ inv[p].pc = "returned"
        /\ inv[p].total_records = 2
        /\ inv[p].successful_records = 1
        /\ inv[p].failed_records = 1
        /\ Len(inv[p].errors) = 1
        /\ history[inv[p].history_id].result.successful = 1
        /\ history[inv[p].history_id].result.total = 2

C5_FailureAlwaysRecorded ==
    [][\A p \in Invocations :
          (/\ inv[p].pc \in {"except", "except_update"}
           /\ inv[p].e \notin {NOT_FOUND, GET_FAILED}
           /\ inv'[p].pc = "raised")
              => /\ history'[inv[p].history_id].status = ERROR
                 /\ history'[inv[p].history_id].result.kind = "Error: "
                 /\ history'[inv[p].history_id].result.cause = inv[p].e]_vars

\* C5, amended: the except block never returns, it raises; it fetches the
\* job again and, when that lookup and the update after it succeed, the job
\* is written "Error" with "Error: <message>" of the exception caught
C5_FailureRecordedWhenRecoverySucceeds ==
    /\ [][\A p \in Invocations :
             inv[p].pc \in {"except", "except_update"} /\ inv'[p] # inv[p]
                 => /\ inv'[p].pc \in {"except_update", "raised"}
                    /\ inv'[p].e = inv[p].e]_vars
    /\ [][\A p \in Invocations :
             (/\ inv[p].pc = "except"
              /\ inv[p].history_id \in DOMAIN history
              /\ inv'[p] # inv[p]
              /\ faults' = faults)
                 => /\ inv'[p].pc = "except_update"
                    /\ inv'[p].history = history[inv[p].history_id]
                    /\ history' = history]_vars
    /\ [][\A p \in Invocations :
             inv[p].pc = "except_update" /\ inv'[p] # inv[p] /\ faults' = faults
                 => /\ inv'[p].pc = "raised"
                    /\ history'[inv[p].history_id].status = ERROR
                    /\ history'[inv[p].history_id].result.kind = "Error: "
                    /\ history'[inv[p].history_id].result.cause = inv[p].e]_vars
    /\ [](\A p \in Invocations : inv[p].pc \in {"except", "except_update", "raised"} => inv[p].e # "")

\* the update after the loop failed, and the job carries its message
C5_Witness ==
    \E p \in Invocations :
        /\ inv[p].pc = "raised"
        /\ inv[p].e = UPDATE_FAILED
        /\ history[inv[p].history_id].status = ERROR
        /\ history[inv[p].history_id].result.kind = "Error: "
        /\ history[inv[p].history_id].result.cause = UPDATE_FAILED

\* C6: an invocation for an id that names no job fails with the not-found
\* error: it goes from the lookup to the except block and raises, reads no
\* blob and writes to no store
C6_UnknownJobNoWrites ==
    [][\A p \in Invocations :
          (/\ inv[p].pc # "idle"
           /\ inv[p].history_id \notin DOMAIN history
           /\ inv'[p] # inv[p])
              => /\ stores' = stores
                 /\ inv'[p].pc \in {"except", "raised"}
                 /\ inv'[p].rows = << >>
                 /\ (inv[p].pc = "get_by_id" /\ faults' = faults) => inv'[p].e = NOT_FOUND]_vars

\* an invocation for the unknown id has raised the not-found error
C6_Witness ==
    \E p \in Invocations :
        /\ inv[p].pc = "raised"
        /\ inv[p].history_id = UnknownId
        /\ inv[p].e = NOT_FOUND

(***************************************************************************)
(* Properties of the catalog (products).                                   *)
(***************************************************************************)
\* C7: a row whose sku, stripped, is the sku of a stored product is counted
\* as failed, never as successful, and the pass leaves the table as it was
C7_DuplicateSkuRowFails ==
    [][\A p \in Invocations :
          (/\ inv[p].pc = "iterrows"
           /\ inv'[p] # inv[p]
           /\ \E r \in products : r.sku = strip(str(inv[p].rows[inv[p].index + 1].sku)))
              => /\ products' = products
                 /\ inv'[p].failed_records = inv[p].failed_records + 1
                 /\ inv'[p].successful_records = inv[p].successful_records
                 /\ Len(inv'[p].errors) = Len(inv[p].errors) + 1]_vars

\* the INSERT of a row was refused for its sku, which a product of another
\* name holds
C7_Witness ==
    \E p \in Invocations :
        \E k \in 1..Len(inv[p].errors) :
            /\ inv[p].errors[k].e = INTEGRITY_ERROR
            /\ \E r \in products :
                   /\ r.sku = strip(str(inv[p].rows[inv[p].errors[k].fila - 1].sku))
                   /\ r.name # inv[p].rows[inv[p].errors[k].fila - 1].name

\* C8: no two stored products have the same sku
C8_SkuUnique ==
    \A r1 \in products, r2 \in products : r1.sku = r2.sku => r1 = r2

\* create_product passed its get_by_sku check and, before its INSERT, a
\* product with the sku was stored
C8_Witness ==
    \E c \in Creators :
        /\ crt[c].pc = "create"
        /\ \E r \in products : r.sku = str(crt[c].product_data.sku)

(***************************************************************************)
(* Properties of the submission (import_products_file).                    *)
(***************************************************************************)
\* C9: a submission validates, uploads, creates the job and publishes, in
\* that order, each step only after the ones before it succeeded: a blob is
\* there only for a call that passed the three validations, a job only for a
\* call whose blob is stored, an event only for a call whose job is stored,
\* and a call that raised left out every later step
C9_SubmissionOrder ==
    /\ \A b \in bucket :
           \E s \in Submissions :
               /\ sub[s].new_filename = b.name
               /\ sub[s].pc \in {"create_history", "publish", "done"}
               /\ _validate_required_fields(sub[s].file, sub[s].user_id) = "ok"
               /\ _validate_file_type(sub[s].file) = "ok"
               /\ _validate_records_count(sub[s].file, config) = "ok"
    /\ \A id \in DOMAIN history :
           \E s \in Submissions :
               /\ sub[s].history_id = id
               /\ sub[s].pc \in {"publish", "done"}
               /\ history[id].file_name = sub[s].new_filename
               /\ \E b \in bucket : b.name = sub[s].new_filename
    /\ \A m \in topic :
           \E s \in Submissions :
               /\ sub[s].history_id = m.history_id
               /\ sub[s].pc = "done"
               /\ sub[s].raised = ""
               /\ m.history_id \in DOMAIN history
    /\ \A s \in Submissions :
           /\ sub[s].pc = "upload" => \A b \in bucket : b.name # sub[s].new_filename
           /\ sub[s].pc \in {"upload", "create_history"} => sub[s].history_id \notin DOMAIN history
           /\ sub[s].pc # "done" => \A m \in topic : m.history_id # sub[s].history_id
           /\ sub[s].raised = "ValidationError"
                  => sub[s].new_filename = NoKey /\ sub[s].history_id \notin DOMAIN history
           /\ sub[s].pc = "done" /\ sub[s].raised = ""
                  => \E m \in topic : m.history_id = sub[s].history_id

\* a submission went through its four steps
C9_Witness ==
    \E s \in Submissions :
        /\ sub[s].pc = "done"
        /\ sub[s].raised = ""
        /\ \E m \in topic : m.history_id = sub[s].history_id
        /\ sub[s].history_id \in DOMAIN history
        /\ \E b \in bucket : b.name = sub[s].new_filename

\* C10: a file with more data rows than MAX_IMPORT_PRODUCTS is rejected with
\* a ValidationError, and its call stores no blob, no job and no event
C10_OverLimitRejected ==
    /\ [](\A s \in Submissions :
             sub[s].pc # "start" /\ Len(sub[s].file.rows) > config.MAX_IMPORT_PRODUCTS
                 => /\ sub[s].pc = "done"
                    /\ sub[s].raised = "ValidationError"
                    /\ sub[s].new_filename = NoKey
                    /\ sub[s].history_id \notin DOMAIN history)
    /\ [][\A s \in Submissions :
             sub'[s] # sub[s] /\ Len(sub'[s].file.rows) > config.MAX_IMPORT_PRODUCTS
                 => stores' = stores /\ uuids' = uuids]_vars

\* a readable file of a supported type was rejected for its rows alone
C10_Witness ==
    \E s \in Submissions :
        /\ sub[s].raised = "ValidationError"
        /\ _validate_required_fields(sub[s].file, sub[s].user_id) = "ok"
        /\ _validate_file_type(sub[s].file) = "ok"
        /\ reads(extension(sub[s].file.filename), sub[s].file.format)
        /\ Len(sub[s].file.rows) > config.MAX_IMPORT_PRODUCTS

\* C11: a call without a file, with a file that has no name, with a userId
\* that is empty or blank, or with a file name whose extension is none of
\* csv, xls and xlsx ends with ValidationError, and its step changes neither
\* the bucket nor the history table nor the topic
C11_InvalidInputRejected ==
    /\ [](\A s \in Submissions :
             (/\ sub[s].pc # "start"
              /\ \/ ~sub[s].file.present
                 \/ sub[s].file.filename.base = "" /\ sub[s].file.filename.ext = NoDot
                 \/ sub[s].user_id \in {"", "  "}
                 \/ sub[s].file.filename.ext \notin {"csv", "CSV", "xls", "xlsx"})
                 => /\ sub[s].pc = "done"
                    /\ sub[s].raised = "ValidationError"
                    /\ sub[s].new_filename = NoKey
                    /\ sub[s].history_id \notin DOMAIN history
                    /\ \A b \in bucket : b.original_filename # sub[s].file.filename
                                         \/ \E t \in Submissions \ {s} : sub[t].new_filename = b.name)
    /\ [][\A s \in Submissions :
             (/\ sub[s].pc = "start"
              /\ sub'[s] # sub[s]
              /\ \/ ~sub'[s].file.present
                 \/ sub'[s].file.filename.base = "" /\ sub'[s].file.filename.ext = NoDot
                 \/ sub'[s].user_id \in {"", "  "}
                 \/ sub'[s].file.filename.ext \notin {"csv", "CSV", "xls", "xlsx"})
                 => /\ bucket' = bucket
                    /\ history' = history
                    /\ topic' = topic
                    /\ uuids' = uuids]_vars

\* a readable .txt file of a valid user was rejected
C11_Witness ==
    \E s \in Submissions :
        /\ sub[s].pc = "done"
        /\ sub[s].raised = "ValidationError"
        /\ sub[s].file.present
        /\ sub[s].file.filename = txt_name
        /\ sub[s].user_id = ValidUser

\* C12: when the publication of the event fails the call ends with
\* BusinessLogicError and undoes nothing: no event is there for the job, the
\* job created in the step before stays in the table, "En curso" with no
\* result, and the blob stays in the bucket
C12_PublishFailureKeepsJob ==
    /\ [][\A s \in Submissions :
             (/\ sub[s].pc = "publish"
              /\ sub'[s] # sub[s]
              /\ sub'[s].raised # "")
                 => /\ sub'[s].pc = "done"
                    /\ sub'[s].raised = "BusinessLogicError"
                    /\ topic' = topic
                    /\ bucket' = bucket
                    /\ history' = history]_vars
    /\ [](\A s \in Submissions :
             (sub[s].raised = "BusinessLogicError" /\ sub[s].history_id # 0)
                 => /\ sub[s].history_id \in DOMAIN history
                    /\ history[sub[s].history_id].status = EN_CURSO
                    /\ history[sub[s].history_id].result = NullResult
                    /\ history[sub[s].history_id].file_name = sub[s].new_filename
                    /\ \E b \in bucket : b.name = sub[s].new_filename
                    /\ \A m \in topic : m.history_id # sub[s].history_id)

\* the publication failed after the job was created
C12_Witness ==
    \E s \in Submissions :
        /\ sub[s].pc = "done"
        /\ sub[s].raised = "BusinessLogicError"
        /\ sub[s].history_id \in DOMAIN history
        /\ history[sub[s].history_id].status = EN_CURSO
        /\ \E b \in bucket : b.name = sub[s].new_filename

\* C13: a call that ended without raising left exactly one job, the one
\* whose id it returns: "En curso", with no result and no updated_at, under
\* the generated name its blob was uploaded with and with the caller's
\* userId; and exactly one event, which carries that id.  No other job and
\* no other event is there.
C13_OneJobOneEvent ==
    /\ \A s \in Submissions :
           (sub[s].pc = "done" /\ sub[s].raised = "")
               => /\ sub[s].history_id \in DOMAIN history
                  /\ {id \in DOMAIN history : history[id].file_name = sub[s].new_filename}
                         = {sub[s].history_id}
                  /\ history[sub[s].history_id].id = sub[s].history_id
                  /\ history[sub[s].history_id].status = EN_CURSO
                  /\ history[sub[s].history_id].result = NullResult
                  /\ history[sub[s].history_id].updated_at = 0
                  /\ history[sub[s].history_id].user_id = sub[s].user_id
                  /\ sub[s].new_filename.uuid # 0
                  /\ \E b \in bucket : /\ b.name = sub[s].new_filename
                                       /\ b.folder = config.submitter_folder
                                       /\ b.rows = sub[s].file.rows
                  /\ Cardinality({m \in topic : m.history_id = sub[s].history_id}) = 1
    /\ Cardinality(DOMAIN history) = Cardinality({s \in Submissions : sub[s].history_id # 0})
    /\ Cardinality(topic) =
           Cardinality({s \in Submissions : sub[s].pc = "done" /\ sub[s].raised = ""})

\* both calls ended well: two jobs and two events
C13_Witness ==
    /\ \A s \in Submissions : sub[s].pc = "done" /\ sub[s].raised = ""
    /\ Cardinality(DOMAIN history) = 2
    /\ Cardinality(topic) = 2

(***************************************************************************)
(* Properties of the endpoint (process_products_file).                     *)
(***************************************************************************)
\* C14: a request whose envelope is not the one Pub/Sub pushes (no JSON
\* body, no message, no data, data that does not decode, no history_id in
\* the event) is answered 400 with success false, and the processor is not
\* called for it: the invocation has looked up no job and read no file
C14_MalformedAnswered400 ==
    \A p \in Invocations :
        inv[p].envelope # NoEnvelope
            => /\ inv[p].pc = "answered"
               /\ inv[p].response.status = 400
               /\ ~inv[p].response.success
               /\ inv[p].history = NoHistory
               /\ inv[p].rows = << >>

(***************************************************************************)
(* Properties of a delivery that is repeated.                              *)
(***************************************************************************)
\* C15: an invocation that, when it reads the file, finds its job
\* "Finalizado" and the sku of every row stored (all_stored) inserts no
\* product, counts every row as failed and none as successful, does not
\* raise for it, and returns successful = 0 and failed = N, answered 200
C15_RerunCountsAllFailed ==
    /\ [][\A p \in Invocations :
             (inv[p].pc = "download_file" /\ inv'[p].pc \in {"iterrows", "update"})
                 => inv'[p].all_stored =
                        /\ inv[p].history.status = FINALIZADO
                        /\ \A k \in 1..Len(inv'[p].rows) :
                               \E r \in products : r.sku = strip(str(inv'[p].rows[k].sku))]_vars
    /\ [](\A p \in Invocations :
             inv[p].all_stored
                 => /\ inv[p].successful_records = 0
                    /\ inv[p].failed_records = inv[p].index
                    /\ inv[p].pc = "returned"
                           => /\ inv[p].failed_records = Len(inv[p].rows)
                              /\ inv[p].history.result.successful = 0
                              /\ inv[p].history.result.total = Len(inv[p].rows)
                              /\ inv[p].response.status = 200)
    /\ [][\A p \in Invocations :
             (inv[p].all_stored /\ inv'[p] # inv[p])
                 => /\ products' = products
                    /\ inv[p].pc = "iterrows"
                           => inv'[p].pc \in {"iterrows", "update"} /\ inv'[p].e = ""
                    /\ (inv[p].pc = "update" /\ faults' = faults)
                           => inv'[p].pc = "returned"]_vars

\* a job finalized by one delivery with a product inserted, and delivered
\* again: the second invocation returned with every row failed
C15_Witness ==
    \E p \in Invocations, q \in Invocations :
        /\ inv[q].pc = "returned"
        /\ inv[q].successful_records > 0
        /\ inv[p].history_id = inv[q].history_id
        /\ inv[p].pc = "returned"
        /\ inv[p].all_stored
        /\ Len(inv[p].rows) > 0
        /\ inv[p].successful_records = 0
        /\ inv[p].failed_records = Len(inv[p].rows)

(***************************************************************************)
(* Properties of the blob between the two services.                        *)
(***************************************************************************)
\* C16: the download of an invocation that found its job, when the bucket
\* does not fail, reads the blob the submission uploaded: the blob with the
\* job's file_name is in the folder the processor looks in, and the rows
\* the invocation goes on with are the rows of the uploaded file
C16_FetchReadsUploadedBlob ==
    [][\A p \in Invocations :
          (inv[p].pc = "download_file" /\ inv'[p] # inv[p] /\ faults' = faults)
              => /\ inv'[p].e # NO_BLOB
                 /\ \E b \in bucket :
                        /\ b.name = inv[p].history.file_name
                        /\ b.folder = config.consumer_folder
                        /\ inv'[p].pc \in {"iterrows", "update"} => inv'[p].rows = b.rows]_vars

(***************************************************************************)
(* Properties of the except block and of the stamps of a job.              *)
(***************************************************************************)
\* C17 as stated: when the lookup or the update of the except block fails,
\* the invocation raises its first exception and its job is "En curso"
\* with no result
C17_RecoveryFailureLeavesPending ==
    [][\A p \in Invocations :
          (/\ inv[p].pc \in {"except", "except_update"}
           /\ inv[p].history_id \in DOMAIN history
           /\ inv'[p] # inv[p]
           /\ faults' # faults)
              => /\ inv'[p].pc = "raised"
                 /\ inv'[p].e = inv[p].e
                 /\ history'[inv[p].history_id].status = EN_CURSO
                 /\ history'[inv[p].history_id].result = NullResult]_vars

\* C17, amended: when the lookup or the update of the except block fails,
\* that failure is not raised and nothing is written: the job is left as it
\* was (so "En curso" with no result when no invocation had written it),
\* and the invocation raises its first exception, answered 500
C17_RecoveryFailureSwallowed ==
    /\ [][\A p \in Invocations :
             (/\ inv[p].pc \in {"except", "except_update"}
              /\ inv'[p] # inv[p]
              /\ faults' # faults)
                 => /\ inv'[p].pc = "raised"
                    /\ inv'[p].e = inv[p].e
                    /\ inv'[p].response.status = 500
                    /\ history' = history]_vars
    /\ [](\A p \in Invocations :
             inv[p].pc \in {"except", "except_update", "raised"}
                 => inv[p].e \notin {"", UPDATE_FAILED} \/ inv[p].index = Len(inv[p].rows))

\* the file was not found, the except block failed, and the job is still
\* "En curso"
C17_Witness ==
    \E p \in Invocations :
        /\ inv[p].pc = "raised"
        /\ inv[p].e = NO_BLOB
        /\ inv[p].history_id \in DOMAIN history
        /\ history[inv[p].history_id].status = EN_CURSO
        /\ history[inv[p].history_id].result = NullResult

\* C18: the updated_at of a job is null (0) as long as the job is
\* "En curso" and is a stamp in every state in which the job is
\* "Finalizado" or "Error"; every update of the job sets it to the time of
\* that update; created_at is set when the job is created and never changes
C18_Stamps ==
    /\ [](\A id \in DOMAIN history :
             /\ history[id].created_at > 0
             /\ history[id].status \in {EN_CURSO, FINALIZADO, ERROR}
             /\ history[id].status = EN_CURSO => history[id].updated_at = 0
             /\ history[id].status \in {FINALIZADO, ERROR}
                    => history[id].updated_at > history[id].created_at)
    /\ [][\A id \in DOMAIN history :
             /\ history'[id].created_at = history[id].created_at
             /\ (\E p \in Invocations :
                     /\ inv[p].history_id = id
                     /\ inv[p].pc \in {"update", "except_update"}
                     /\ inv'[p] # inv[p]
                     /\ faults' = faults)
                    => /\ history'[id].updated_at = clock
                       /\ history'[id].updated_at > history[id].updated_at
             /\ history'[id] # history[id] => history'[id].updated_at = clock]_vars

\* a job that was updated, and then updated again
C18_Witness ==
    \E id \in DOMAIN history :
        /\ history[id].status \in {FINALIZADO, ERROR}
        /\ history[id].updated_at > history[id].created_at + 1

\* C19: a request with the envelope Pub/Sub pushes is answered 200 with
\* success true exactly when process_file_by_history_id returned its
\* result, whatever the number of failed rows in it, and 500 with success
\* false exactly when it raised; until then it has no answer
C19_AnswerFollowsProcessor ==
    \A p \in Invocations :
        inv[p].envelope = NoEnvelope
            => /\ inv[p].pc = "returned"
                      <=> (inv[p].response.status = 200 /\ inv[p].response.success)
               /\ inv[p].pc = "raised"
                      <=> (inv[p].response.status = 500 /\ ~inv[p].response.success)
               /\ inv[p].pc \notin {"returned", "raised"} <=> inv[p].response = NoResponse
               /\ inv[p].pc = "raised" => inv[p].e # ""
               /\ inv[p].pc = "returned" => inv[p].e = ""

\* a result with a failed row and an inserted one, answered 200
C19_Witness ==
    \E p \in Invocations :
        /\ inv[p].pc = "returned"
        /\ inv[p].failed_records > 0
        /\ inv[p].successful_records > 0
        /\ inv[p].response.status = 200
        /\ inv[p].response.success

C21_StockNeverNegative ==
    /\ [](\A r \in products : r.quantity >= 0)
    /\ [][\A u \in Updaters :
             (/\ stk[u].pc = "start"
              /\ stk'[u] # stk[u]
              /\ faults' = faults
              /\ \/ ~(\E r \in products : r.id = stk'[u].product_id)
                 \/ stk'[u].operation \notin {"add", "subtract"}
                 \/ stk'[u].quantity <= 0
                 \/ /\ stk'[u].operation = "subtract"
                    /\ stk'[u].quantity > stored_quantity(stk'[u].product_id, products))
                 => /\ stk'[u].pc = "done"
                    /\ stk'[u].raised = "ValueError"
                    /\ products' = products]_vars

\* 4 asked of a stock of 2: the call raised ValueError and the 2 are there
C21_Witness ==
    \E u \in Updaters :
        /\ stk[u].pc = "done"
        /\ stk[u].raised = "ValueError"
        /\ stk[u].product_id = 1
        /\ stk[u].operation = "subtract"
        /\ stk[u].quantity = 4
        /\ stk[u].current_quantity = 2
        /\ \E r \in products : r.id = 1 /\ r.quantity = 2

(***************************************************************************)
(* Properties of the row loop of _process_file_content.                    *)
(***************************************************************************)
\* C22: the pass of the loop that follows k - 1 passes attempts the k-th
\* data row of the file (it stores that row's product or appends one error
\* entry to the end of the list), the entry of row k is labelled k + 1, and
\* the labels of the error list are strictly increasing
C22_ErrorLabels ==
    /\ [](\A p \in Invocations :
             /\ \A j \in 1..Len(inv[p].errors) :
                    /\ inv[p].errors[j].fila >= 2
                    /\ inv[p].errors[j].fila <= inv[p].index + 1
             /\ \A j, k \in 1..Len(inv[p].errors) :
                    j < k => inv[p].errors[j].fila < inv[p].errors[k].fila)
    /\ [][\A p \in Invocations :
             (inv[p].pc = "iterrows" /\ inv'[p] # inv[p])
                 => LET k == inv[p].index + 1
                    IN /\ inv'[p].index = k
                       /\ k <= Len(inv[p].rows)
                       /\ \/ /\ inv'[p].errors = inv[p].errors
                             /\ \E r \in products' \ products :
                                    /\ r.sku = strip(str(inv[p].rows[k].sku))
                                    /\ products' = products \cup {r}
                          \/ /\ products' = products
                             /\ Len(inv'[p].errors) = Len(inv[p].errors) + 1
                             /\ SubSeq(inv'[p].errors, 1, Len(inv[p].errors)) = inv[p].errors
                             /\ inv'[p].errors[Len(inv'[p].errors)].fila = k + 1]_vars

\* a file whose two rows both failed: the entries are labelled 2 and 3
C22_Witness ==
    \E p \in Invocations :
        /\ inv[p].pc = "returned"
        /\ Len(inv[p].rows) = 2
        /\ Len(inv[p].errors) = 2
        /\ inv[p].errors[1].fila = 2
        /\ inv[p].errors[2].fila = 3

\* C23 as stated: while an invocation is in its row loop the stored status
\* of its job is "En curso"
C23_PendingDuringLoop ==
    \A p \in Invocations :
        inv[p].pc = "iterrows" => history[inv[p].history_id].status = EN_CURSO

\* C23: an invocation does not write its job before every row was
\* attempted: the passes of its loop leave the job table alone, it writes
\* the table only in the update after the last row or in the compensating
\* update, and after that write it takes no further step, so none of its
\* product writes follows it
C23_JobWrittenAfterLoop ==
    /\ [](\A p \in Invocations :
             inv[p].pc = "update" => inv[p].index = Len(inv[p].rows))
    /\ [][\A p \in Invocations :
             (inv[p].pc = "iterrows" /\ inv'[p] # inv[p]) => history' = history]_vars
    /\ [][\A p \in Invocations :
             (history' # history /\ inv'[p] # inv[p])
                 => /\ inv[p].pc \in {"update", "except_update"}
                    /\ inv'[p].pc \in {"returned", "raised"}
                    /\ products' = products]_vars
    /\ [][\A p \in Invocations :
             inv[p].pc \in {"returned", "raised"} => inv'[p] = inv[p]]_vars
    /\ [][\A p \in Invocations :
             (inv[p].pc = "update" /\ inv'[p].pc = "returned")
                 => history'[inv[p].history_id].status = FINALIZADO]_vars

\* a file of two rows, both stored, and the job finalized by the invocation
\* that stored them
C23_Witness ==
    \E p \in Invocations :
        /\ inv[p].pc = "returned"
        /\ inv[p].successful_records = 2
        /\ Cardinality(products) = 2
        /\ inv[p].history_id \in DOMAIN history
        /\ history[inv[p].history_id].status = FINALIZADO
        /\ history[inv[p].history_id].result = result_message(2, 2)

(***************************************************************************)
(* Properties of the events of the topic.                                  *)
(***************************************************************************)
\* C24: every published event carries the id of a job that is in the
\* history table, that a submission created, and whose file is in the
\* bucket under the job's file_name
C24_EventsHaveJobAndBlob ==
    \A m \in topic :
        /\ m.history_id \in DOMAIN history
        /\ \E s \in Submissions :
               /\ sub[s].history_id = m.history_id
               /\ history[m.history_id].file_name = sub[s].new_filename
        /\ \E b \in bucket :
               /\ b.folder = config.submitter_folder
               /\ b.name = history[m.history_id].file_name

\* two submissions published their events
C24_Witness ==
    /\ Cardinality(topic) = 2
    /\ Cardinality(DOMAIN history) = 2
    /\ Cardinality(bucket) = 2
    /\ \A s \in Submissions : sub[s].pc = "done" /\ sub[s].raised = ""

(***************************************************************************)
(* Properties of a submission whose job cannot be created.                 *)
(***************************************************************************)
\* C25: a submission whose file was uploaded and whose user_id is longer
\* than 36 characters or whose generated key is longer than 100 fails at
\* the creation of the job; and every submission that fails there, for
\* that reason or because the store failed, raises BusinessLogicError and
\* writes nothing: its blob stays in the bucket, no job has the blob's name
\* as file_name, and no event of it is published
C25_OrphanBlob ==
    /\ [][\A s \in Submissions :
             (/\ sub[s].pc = "create_history"
              /\ \/ Len(sub[s].user_id) > 36
                 \/ key_len(sub[s].new_filename) > 100)
                 => (sub'[s] # sub[s] => sub'[s].pc = "done")]_vars
    /\ [][\A s \in Submissions :
             (sub[s].pc = "create_history" /\ sub'[s].pc = "done")
                 => /\ sub'[s].raised = "BusinessLogicError"
                    /\ sub'[s].history_id = 0
                    /\ \E b \in bucket : b.name = sub[s].new_filename
                    /\ bucket' = bucket
                    /\ history' = history
                    /\ topic' = topic]_vars
    /\ [](\A s \in Submissions :
             (sub[s].pc = "done" /\ sub[s].history_id = 0)
                 => /\ \A id \in DOMAIN history : history[id].file_name # sub[s].new_filename
                    /\ \A m \in topic : \E t \in Submissions \ {s} :
                           sub[t].history_id = m.history_id)
    /\ [](\A s \in Submissions :
             (sub[s].pc = "done" /\ sub[s].new_filename # NoKey
                 /\ \E b \in bucket : b.name = sub[s].new_filename)
                 => (sub[s].history_id = 0 => sub[s].raised = "BusinessLogicError"))

\* a userId of 37 characters: the blob is in the bucket, and there is no job
\* and no event
C25_Witness ==
    \E s \in Submissions :
        /\ sub[s].pc = "done"
        /\ sub[s].raised = "BusinessLogicError"
        /\ Len(sub[s].user_id) = 37
        /\ key_len(sub[s].new_filename) <= 100
        /\ \E b \in bucket : b.name = sub[s].new_filename
        /\ history = << >>
        /\ topic = {}

(***************************************************************************)
(* Properties of the products a failed invocation stored.                  *)
(***************************************************************************)
\* C26 as stated: an invocation whose update of the job failed after the
\* loop ends with the job written "Error", with the message of that failure
C26_FailedFinalizationMarksError ==
    [][\A p \in Invocations :
          (inv[p].e = UPDATE_FAILED /\ inv[p].pc # "raised" /\ inv'[p].pc = "raised")
              => /\ history'[inv[p].history_id].status = ERROR
                 /\ history'[inv[p].history_id].result.cause = UPDATE_FAILED]_vars

\* C26: no step removes or changes a stored product; an invocation whose
\* update of the job failed after the loop leaves every product it stored
\* in the table on its way out, and its compensating update, when the
\* lookup before it and the update itself succeed, writes the job "Error"
C26_CatalogWritesKept ==
    /\ [][\A r \in products : r \in products']_vars
    /\ [](\A p \in Invocations :
             inv[p].e = UPDATE_FAILED
                 => /\ inv[p].index = Len(inv[p].rows)
                    /\ Cardinality({r \in products :
                           \E k \in 1..Len(inv[p].rows) :
                               r.sku = strip(str(inv[p].rows[k].sku))})
                         >= inv[p].successful_records)
    /\ [][\A p \in Invocations :
             (/\ inv[p].e = UPDATE_FAILED
              /\ inv[p].pc = "except_update"
              /\ inv'[p].pc = "raised"
              /\ faults' = faults)
                 => /\ history'[inv[p].history_id].status = ERROR
                    /\ history'[inv[p].history_id].result.kind = "Error: "
                    /\ history'[inv[p].history_id].result.cause = UPDATE_FAILED
                    /\ products' = products]_vars

\* two products stored, the update of the job failed, and the job "Error"
C26_Witness ==
    \E p \in Invocations :
        /\ inv[p].pc = "raised"
        /\ inv[p].e = UPDATE_FAILED
        /\ inv[p].successful_records = 2
        /\ Cardinality(products) = 2
        /\ history[inv[p].history_id].status = ERROR
        /\ history[inv[p].history_id].result.cause = UPDATE_FAILED

(***************************************************************************)
(* Properties of two invocations for one job.                              *)
(***************************************************************************)
\* C27 as stated: when the two invocations for a job have both ended, the
\* products stored are as many as the two counted successful and the job
\* is "Finalizado" or "Error"
C27_DuplicatesEndTerminal ==
    \A p, q \in Invocations :
        (/\ p # q
         /\ inv[p].history_id \in DOMAIN history
         /\ inv[q].history_id = inv[p].history_id
         /\ inv[p].pc \in {"returned", "raised"}
         /\ inv[q].pc \in {"returned", "raised"})
            => /\ inv[p].successful_records + inv[q].successful_records = Cardinality(products)
               /\ history[inv[p].history_id].status \in {FINALIZADO, ERROR}

\* C27: with two invocations for one job interleaved in any way, no sku is
\* stored twice and the products stored are as many as the two invocations
\* counted successful; every write of the job is the write of an
\* invocation for it and leaves the result of that invocation in the job,
\* so that the job holds the result of the one that wrote last; and a job
\* that was written at all is "Finalizado" or "Error"
C27_DuplicatesInsertOnce ==
    /\ [](\A r1, r2 \in products : r1.sku = r2.sku => r1 = r2)
    /\ [](\A p, q \in Invocations :
             (/\ p # q
              /\ inv[p].history_id \in DOMAIN history
              /\ inv[q].history_id = inv[p].history_id)
                 => inv[p].successful_records + inv[q].successful_records
                        = Cardinality(products))
    /\ [][\A id \in DOMAIN history :
             history'[id] # history[id]
                 => \E p \in Invocations :
                        /\ inv[p].history_id = id
                        /\ inv'[p] # inv[p]
                        /\ \/ /\ inv'[p].pc = "returned"
                              /\ history'[id].status = FINALIZADO
                              /\ history'[id].result.kind = "registrados"
                              /\ history'[id].result.successful = inv[p].successful_records
                              /\ history'[id].result.total = inv[p].total_records
                           \/ /\ inv'[p].pc = "raised"
                              /\ history'[id].status = ERROR
                              /\ history'[id].result.kind = "Error: "
                              /\ history'[id].result.cause = inv[p].e]_vars
    /\ [](\A id \in DOMAIN history :
             history[id].updated_at # 0 => history[id].status \in {FINALIZADO, ERROR})

\* two invocations for the job of a file of two rows, interleaved: each
\* stored one of the rows, and the job says 1/2 as the last one wrote it
C27_Witness ==
    \E p, q \in Invocations :
        /\ p # q
        /\ inv[p].history_id \in DOMAIN history
        /\ inv[q].history_id = inv[p].history_id
        /\ inv[p].pc = "returned"
        /\ inv[q].pc = "returned"
        /\ inv[p].successful_records = 1
        /\ inv[q].successful_records = 1
        /\ Cardinality(products) = 2
        /\ history[inv[p].history_id].result = result_message(1, 2)

(***************************************************************************)
(* Progress of an invocation.                                              *)
(***************************************************************************)
\* C28: the loop takes each row once (the index of the loop never goes
\* back and never passes the number of rows); every invocation that was
\* started returns or raises in the end; and an invocation for a job of the
\* table ends, unless a call of it to the history store failed (the lookup,
\* the update, or the lookup or update of the except block), with the job
\* "Finalizado" or "Error"
C28_InvocationsTerminate ==
    /\ [][\A p \in Invocations :
             /\ inv'[p].index \in {inv[p].index, inv[p].index + 1}
             /\ inv'[p].index <= Len(inv'[p].rows)]_vars
    /\ \A p \in Invocations :
           (inv[p].pc # "idle") ~> (inv[p].pc \in {"returned", "raised"})
    /\ \A p \in Invocations :
           (inv[p].pc = "get_by_id" /\ inv[p].history_id \in DOMAIN history)
               ~> (/\ inv[p].pc \in {"returned", "raised"}
                   /\ \/ inv[p].e \in {GET_FAILED, UPDATE_FAILED}
                      \/ inv[p].recovery_failed
                      \/ /\ inv[p].history_id \in DOMAIN history
                         /\ history[inv[p].history_id].status \in {FINALIZADO, ERROR})

\* the download failed with the history store at work: the invocation
\* raised and the job is "Error"
C28_Witness ==
    \E p \in Invocations :
        /\ inv[p].pc = "raised"
        /\ inv[p].e = DOWNLOAD_FAILED
        /\ ~inv[p].recovery_failed
        /\ history[inv[p].history_id].status = ERROR
        /\ history[inv[p].history_id].result = error_result(DOWNLOAD_FAILED)

(***************************************************************************)
(* Frame of the invocation on the job table.                               *)
(***************************************************************************)
\* C29: a step of an invocation neither adds a job to the table nor takes
\* one out, and leaves the id, the file_name, the user_id and the
\* created_at of every job as they were; the job it writes is the job of
\* its history_id, and no other job changes in that step
C29_JobFrame ==
    [][\A p \in Invocations :
          inv'[p] # inv[p]
              => /\ DOMAIN history' = DOMAIN history
                 /\ \A id \in DOMAIN history :
                        /\ history'[id].id = history[id].id
                        /\ history'[id].file_name = history[id].file_name
                        /\ history'[id].user_id = history[id].user_id
                        /\ history'[id].created_at = history[id].created_at
                        /\ id # inv[p].history_id => history'[id] = history[id]]_vars

\* the job written "Error" by an invocation, with the name, the user and
\* the created_at the submission gave it
C29_Witness ==
    \E p \in Invocations, s \in Submissions :
        /\ inv[p].pc = "raised"
        /\ inv[p].history_id = sub[s].history_id
        /\ inv[p].history_id \in DOMAIN history
        /\ history[inv[p].history_id].status = ERROR
        /\ history[inv[p].history_id].updated_at > history[inv[p].history_id].created_at
        /\ history[inv[p].history_id].id = sub[s].history_id
        /\ history[inv[p].history_id].file_name = sub[s].new_filename
        /\ history[inv[p].history_id].user_id = sub[s].user_id

(***************************************************************************)
(* Concurrent calls of update_stock.                                       *)
(***************************************************************************)
\* C30 as stated: with no call of update_stock between its read and its
\* write, the stored quantity of the product is the quantity it was created
\* with plus the quantities of the calls that returned, each with the sign
\* of its operation
C30_NoLostUpdate ==
    (/\ \A u \in Updaters : stk[u].pc \in {"start", "done"}
     /\ \E r \in products : r.id = 1)
        => stored_quantity(1, products)
               = _create_product_instance(crt["c1"].product_data).quantity
                 + quantity_changed("u1") + quantity_changed("u2") + quantity_changed("u3")

====
